---------------------------- MODULE Spec2Model ----------------------------
(***************************************************************************)
(* Model of the websocket notification relay:                              *)
(*   src/index.js                                startup sequence          *)
(*   src/unnamed/part_001 (config/server.config) initSocket / getIo        *)
(*   src/controllers/notification.controller.js  POST and GET handlers     *)
(*   src/models/notification.model.js            the record schema         *)
(* The realtime transport (socket.io) and the store (mongoose) are not in  *)
(* the repository; they are modelled at the calls the repository makes:    *)
(* io.on("connection"), io.emit, notiSchema.create, notiSchema.find.       *)
(***************************************************************************)
EXTENDS Naturals, Sequences, FiniteSets

\* ------------------------------------------------------------------ bounds
MaxReqs == 2
MaxConns == 2

MaxSeedRuns == 3

ReqIds == 1..MaxReqs
ConnIds == 1..MaxConns
SeedRuns == 1..MaxSeedRuns

\* ------------------------------------------------------- request body values
\* A field of req.body: absent, the empty string, a non-empty string, or a
\* non-string JSON value (an object) that the String schema type cannot cast.
Undefined == "<undefined>"
Obj == "<object>"
Messages == {Undefined, "", "m1", Obj}
UserIds == {Undefined, "", "u1"}

\* JavaScript truthiness of a body field, as used by `!message || !userId`.
Truthy(v) == v \notin {Undefined, ""}

\* ------------------------------------------------------------ notification
\* The schema: message String required, userId String, read Boolean default
\* false, timestamps (createdAt, updatedAt).
CastableToString(v) == v # Obj

notificationModel(id, message, userId, t) ==
    [id |-> id, message |-> message, userId |-> userId, read |-> FALSE,
     createdAt |-> t, updatedAt |-> t]

\* Whether create({message, userId}) passes the schema's cast and validation.
SchemaAccepts(message, userId) ==
    /\ message # Undefined /\ message # ""
    /\ CastableToString(message)
    /\ (userId = Undefined \/ CastableToString(userId))

\* ------------------------------------------------------------------- state
VARIABLES
    pcMain,     \* position of index.js's top-level code
    io,         \* the module variable `io` of server.config: "unset" | "server"
    conn,       \* per connection: "new" | "open" | "broken" | "closed"
    outq,       \* per connection: packets written by the server, not yet delivered
    received,   \* per connection: payloads of "notification" events the client got
    store,      \* the notifications collection, in insertion order
    now,        \* the clock the store stamps records with
    reqs,       \* per HTTP request: the handler's position, locals and response
    emitted,    \* log of io.emit calls: request, payload, membership and conn then
    sockets,    \* the connections the server instance holds (its membership)
    closeRuns,  \* per connection: how often its close listener has run
    seedPc,     \* per run of seederadmin.js: its position
    users       \* the users collection: number of admin@admin.com users

seedVars == <<seedPc, users>>

vars == <<pcMain, io, conn, outq, received, store, now, reqs, emitted,
          sockets, closeRuns, seedVars>>

NoReq ==
    [kind |-> "none", pc |-> "idle", message |-> Undefined, userId |-> Undefined,
     doc |-> <<>>, error |-> "", status |-> 0, body |-> "", success |-> FALSE,
     data |-> <<>>, steps |-> <<>>]

Init ==
    /\ pcMain = "start"
    /\ io = "unset"
    /\ conn = [c \in ConnIds |-> "new"]
    /\ outq = [c \in ConnIds |-> <<>>]
    /\ received = [c \in ConnIds |-> <<>>]
    /\ store = <<>>
    /\ now = 1
    /\ reqs = [r \in ReqIds |-> NoReq]
    /\ emitted = <<>>
    /\ sockets = {}
    /\ closeRuns = [c \in ConnIds |-> 0]
    /\ seedPc = [p \in SeedRuns |-> "idle"]
    /\ users = 0

\* ---------------------------------------------------------------- startup
\* index.js:16  initSocket(server) is called and not awaited: it runs up to
\* its `await import("socket.io")` and returns a pending promise.
InitSocketCall ==
    /\ pcMain = "start"
    /\ pcMain' = "importing"
    /\ UNCHANGED <<io, conn, outq, received, store, now, reqs, emitted,
                   sockets, closeRuns, seedVars>>

\* index.js:18-29  connectDB(), middleware and routes, all synchronous.
RegisterRoutes ==
    /\ pcMain = "importing"
    /\ pcMain' = "routes"
    /\ UNCHANGED <<io, conn, outq, received, store, now, reqs, emitted,
                   sockets, closeRuns, seedVars>>

\* index.js:31  server.listen: from here on requests are served.
Listen ==
    /\ pcMain = "routes"
    /\ pcMain' = "listening"
    /\ UNCHANGED <<io, conn, outq, received, store, now, reqs, emitted,
                   sockets, closeRuns, seedVars>>

Listening == pcMain = "listening"

\* server.config:4-15  the dynamic import resolves in a later turn of the
\* event loop (never inside index.js's synchronous top-level code); initSocket
\* resumes, assigns io and registers the connection handler.
ImportCanResolve == Listening

initSocket ==
    /\ ImportCanResolve
    /\ io = "unset"
    /\ io' = "server"
    /\ UNCHANGED <<pcMain, conn, outq, received, store, now, reqs, emitted,
                   sockets, closeRuns, seedVars>>

\* server.config:18-24  getIo throws Error("Socket not initialized...") when
\* io is not set, and returns io otherwise.
NotInitialized == "Socket not initialized..."

MutGetIoThrows == FALSE

getIoThrows == io = "unset"

\* ------------------------------------------------------------ connections
\* The server instance keeps the connected sockets (server.config:10,
\* io.on("connection")); io.emit reads that membership.  A connection is
\* "broken" when its transport is no longer writable (closing, or the
\* network failed) and the close has not yet reached the server.
Registry == sockets

\* The server adds an accepted connection to its membership and removes it
\* when the transport reports the close.
Register(S, c) == S \cup {c}

MutUnregister(S, c) == S

Unregister(S, c) == S \ {c}

\* server.config:12  the event the handler registers its close listener on,
\* and the event the transport emits on a socket when its connection closes.
CloseListenerEvent == "disconnected"

TransportCloseEvent == "disconnect"

Writable(c) == conn[c] = "open"

\* server.config:10-15  a client connects; the handler logs and registers a
\* listener for the event "disconnected".  Connections are numbered in the
\* order they are accepted.
Connect(c) ==
    /\ Listening
    /\ io = "server"
    /\ conn[c] = "new"
    /\ \A d \in ConnIds : d < c => conn[d] # "new"
    /\ conn' = [conn EXCEPT ![c] = "open"]
    /\ sockets' = Register(sockets, c)
    /\ UNCHANGED <<pcMain, io, outq, received, store, now, reqs, emitted,
                   closeRuns, seedVars>>

\* The transport of an open connection stops being writable; what was in
\* flight to it is lost.
TransportFail(c) ==
    /\ conn[c] = "open"
    /\ conn' = [conn EXCEPT ![c] = "broken"]
    /\ outq' = [outq EXCEPT ![c] = <<>>]
    /\ UNCHANGED <<pcMain, io, received, store, now, reqs, emitted,
                   sockets, closeRuns, seedVars>>

\* The transport reports the close; the server drops the socket from its
\* membership.  Undelivered packets are lost.
Close(c) ==
    /\ conn[c] \in {"open", "broken"}
    /\ conn' = [conn EXCEPT ![c] = "closed"]
    /\ outq' = [outq EXCEPT ![c] = <<>>]
    /\ sockets' = Unregister(sockets, c)
    /\ closeRuns' = [closeRuns EXCEPT ![c] =
                        IF CloseListenerEvent = TransportCloseEvent
                        THEN @ + 1 ELSE @]
    /\ UNCHANGED <<pcMain, io, received, store, now, reqs, emitted, seedVars>>

\* What is left of a connection's outbound queue once its head was delivered.
MutAfterDelivery(q) == q

AfterDelivery(q) == Tail(q)

\* The client of an open connection receives the next packet, in order.
Deliver(c) ==
    /\ conn[c] = "open"
    /\ outq[c] # <<>>
    /\ received' = [received EXCEPT ![c] = Append(@, Head(outq[c]))]
    /\ outq' = [outq EXCEPT ![c] = AfterDelivery(@)]
    /\ UNCHANGED <<pcMain, io, conn, store, now, reqs, emitted,
                   sockets, closeRuns, seedVars>>

\* The membership in iteration order (the order of acceptance).
RECURSIVE SortedSeq(_)
SortedSeq(S) ==
    IF S = {} THEN <<>>
    ELSE LET m == CHOOSE x \in S : \A y \in S : x <= y
         IN <<m>> \o SortedSeq(S \ {m})

\* controller:21  io.emit("notification", payload): one packet is written to
\* every member in turn; a write to a transport that is not open is ignored.
RECURSIVE MutEmitAborting(_, _, _)
MutEmitAborting(cs, q, payload) ==
    IF cs = <<>> THEN q
    ELSE IF ~Writable(Head(cs)) THEN q
    ELSE MutEmitAborting(Tail(cs), [q EXCEPT ![Head(cs)] = Append(@, payload)],
                         payload)

MutEmitPrepend(cs, q, payload) ==
    [c \in DOMAIN q |->
        IF (\E k \in DOMAIN cs : cs[k] = c) /\ Writable(c)
        THEN <<payload>> \o q[c]
        ELSE q[c]]

RECURSIVE emit(_, _, _)
emit(cs, q, payload) ==
    IF cs = <<>> THEN q
    ELSE emit(Tail(cs),
              IF Writable(Head(cs))
              THEN [q EXCEPT ![Head(cs)] = Append(@, payload)]
              ELSE q,
              payload)

\* ---------------------------------------------------------- HTTP requests
\* Requests are numbered in the order their handlers start.
CanStart(r) ==
    /\ Listening
    /\ reqs[r].pc = "idle"
    /\ \A q \in ReqIds : q < r => reqs[q].pc # "idle"

\* res.status(status).json({message: body, success, data})
Respond(q, status, body, success, data) ==
    [q EXCEPT !.pc = "done", !.status = status, !.body = body,
              !.success = success, !.data = data,
              !.steps = Append(@, "respond")]

\* The notification handler has no try/catch: when it throws after an await
\* its promise rejects and the handler itself sends nothing.  What the
\* request then gets depends on the framework build: nothing at all (the
\* rejection is unhandled), or the framework's own error response.
RejectionOutcomes == {"unanswered", "framework500"}

CreateError == "create rejected"

MutRejected(q, error, outcome) ==
    [q EXCEPT !.pc = "created",
              !.doc = <<notificationModel(0, q.message, q.userId, 0)>>]

Rejected(q, error, outcome) ==
    [q EXCEPT !.pc = "rejected", !.error = error,
              !.status = IF outcome = "framework500" THEN 500 ELSE 0]

\* controller:8  `!message || !userId`
MutBadRequest(message, userId) == ~Truthy(message) /\ ~Truthy(userId)

BadRequest(message, userId) == ~Truthy(message) \/ ~Truthy(userId)

\* controller:4-17  POST /notification up to the await of create().
PostBegin(r, message, userId) ==
    /\ CanStart(r)
    /\ now' = now + 1
    /\ LET q == [reqs[r] EXCEPT !.kind = "POST", !.message = message,
                                !.userId = userId]
       IN reqs' = [reqs EXCEPT ![r] =
              IF BadRequest(message, userId)
              THEN Respond(q, 400, "Bad Request", FALSE, <<>>)
              ELSE [q EXCEPT !.pc = "creating"]]
    /\ UNCHANGED <<pcMain, io, conn, outq, received, store, emitted,
                   sockets, closeRuns, seedVars>>

\* controller:14-17, model:3-18  create() inserts the new document; its
\* result (doc) is then on its way to the awaiting handler.
StoreCreate(r) ==
    /\ reqs[r].pc = "creating"
    /\ SchemaAccepts(reqs[r].message, reqs[r].userId)
    /\ LET rec == notificationModel(Len(store) + 1, reqs[r].message,
                                    reqs[r].userId, now)
       IN /\ store' = Append(store, rec)
          /\ reqs' = [reqs EXCEPT ![r].pc = "created", ![r].doc = <<rec>>,
                                  ![r].steps = Append(@, "persist")]
    /\ now' = now + 1
    /\ UNCHANGED <<pcMain, io, conn, outq, received, emitted,
                   sockets, closeRuns, seedVars>>

\* controller:14  create() rejects (the schema refuses the value, or the
\* store is unavailable): the await throws out of the handler.
CreateRejects(r, outcome) ==
    /\ reqs[r].pc = "creating"
    /\ reqs' = [reqs EXCEPT ![r] = Rejected(@, CreateError, outcome)]
    /\ UNCHANGED <<pcMain, io, conn, outq, received, store, now, emitted,
                   sockets, closeRuns, seedVars>>

\* controller:19-27  create()'s result reaches the handler and the await
\* resumes: getIo(), io.emit, res.status(201).json, in one synchronous run of
\* the event loop.  Results of concurrent creates can reach their handlers in
\* another order than the store inserted the records.
AfterEmit(q) == [q EXCEPT !.steps = Append(@, "broadcast")]

MutEmitPayload(rec) == [rec EXCEPT !.read = TRUE]

EmitPayload(rec) == rec

PostResume(r, outcome) ==
    /\ reqs[r].pc = "created"
    /\ IF getIoThrows
       THEN /\ reqs' = [reqs EXCEPT ![r] = Rejected(@, NotInitialized, outcome)]
            /\ UNCHANGED <<outq, emitted>>
       ELSE LET newNotification == reqs[r].doc[1]
            IN /\ outq' = emit(SortedSeq(Registry), outq,
                               EmitPayload(newNotification))
               /\ emitted' = Append(emitted,
                                [req |-> r,
                                 payload |-> EmitPayload(newNotification),
                                 members |-> Registry,
                                 connAt |-> conn])
               /\ reqs' = [reqs EXCEPT ![r] =
                      Respond(AfterEmit(@), 201,
                              "Notification Sent Successfully", TRUE,
                              <<newNotification>>)]
    /\ UNCHANGED <<pcMain, io, conn, received, store, now,
                   sockets, closeRuns, seedVars>>

\* controller:30-32  GET /notification up to the await of find().
GetBegin(r) ==
    /\ CanStart(r)
    /\ now' = now + 1
    /\ reqs' = [reqs EXCEPT ![r].kind = "GET", ![r].pc = "finding"]
    /\ UNCHANGED <<pcMain, io, conn, outq, received, store, emitted,
                   sockets, closeRuns, seedVars>>

\* controller:32  find() resolves with every document of the collection.
FindResult(s) == s

StoreFind(r) ==
    /\ reqs[r].pc = "finding"
    /\ reqs' = [reqs EXCEPT ![r].pc = "found", ![r].doc = FindResult(store)]
    /\ UNCHANGED <<pcMain, io, conn, outq, received, store, now, emitted,
                   sockets, closeRuns, seedVars>>

\* controller:46-51  find() rejects: the catch block answers 500.
FindRejects(r) ==
    /\ reqs[r].pc = "finding"
    /\ reqs' = [reqs EXCEPT ![r] =
           Respond(@, 500, "Internal Server Error", FALSE, <<>>)]
    /\ UNCHANGED <<pcMain, io, conn, outq, received, store, now, emitted,
                   sockets, closeRuns, seedVars>>

\* controller:34-45
MutNoneFound(notification) == FALSE

NoneFound(notification) == Len(notification) = 0

GetResume(r) ==
    /\ reqs[r].pc = "found"
    /\ reqs' = [reqs EXCEPT ![r] =
           IF NoneFound(@.doc)
           THEN Respond(@, 404, "No Notification Found", FALSE, <<>>)
           ELSE Respond(@, 200, "Notification Sent Successfully", TRUE, @.doc)]
    /\ UNCHANGED <<pcMain, io, conn, outq, received, store, now, emitted,
                   sockets, closeRuns, seedVars>>

\* ----------------------------------------------------------- specification
Next ==
    \/ InitSocketCall
    \/ RegisterRoutes
    \/ Listen
    \/ initSocket
    \/ \E c \in ConnIds : Connect(c)
    \/ \E c \in ConnIds : TransportFail(c)
    \/ \E c \in ConnIds : Close(c)
    \/ \E c \in ConnIds : Deliver(c)
    \/ \E r \in ReqIds, m \in Messages, u \in UserIds : PostBegin(r, m, u)
    \/ \E r \in ReqIds : StoreCreate(r)
    \/ \E r \in ReqIds, o \in RejectionOutcomes : CreateRejects(r, o)
    \/ \E r \in ReqIds, o \in RejectionOutcomes : PostResume(r, o)
    \/ \E r \in ReqIds : GetBegin(r)
    \/ \E r \in ReqIds : StoreFind(r)
    \/ \E r \in ReqIds : FindRejects(r)
    \/ \E r \in ReqIds : GetResume(r)

Spec == Init /\ [][Next]_vars

\* The transport delivers what was written to a connection that stays open
\* (the ordered, reliable transport the design assumes); nothing else is
\* required to happen.
FairSpec == Spec /\ \A c \in ConnIds : WF_vars(Deliver(c))

\* ------------------------------------------------------------------ helpers
Count(seq, x) == Cardinality({k \in DOMAIN seq : seq[k] = x})

InSeq(seq, x) == \E k \in DOMAIN seq : seq[k] = x

Stored(rec) == rec.id \in DOMAIN store /\ store[rec.id] = rec

EmittedFor(r) == {i \in DOMAIN emitted : emitted[i].req = r}

\* ------------------------------------------------------------------ claims

\* C1: a POST whose message or userId is missing or empty is answered
\* 400 {message: "Bad Request", success: false} in the step that starts it, and
\* that step changes neither the store nor anything sent to a connection.
C1_BadRequestNoSideEffects ==
    [][\A r \in ReqIds :
          (/\ reqs[r].pc = "idle"
           /\ reqs'[r].kind = "POST"
           /\ (~Truthy(reqs'[r].message) \/ ~Truthy(reqs'[r].userId)))
          => /\ reqs'[r].pc = "done"
             /\ reqs'[r].status = 400
             /\ reqs'[r].body = "Bad Request"
             /\ reqs'[r].success = FALSE
             /\ reqs'[r].data = <<>>
             /\ store' = store
             /\ emitted' = emitted
             /\ outq' = outq
             /\ received' = received]_vars

\* C1 witness: a rejected POST while the store holds a record and a
\* connection is open.
C1_Witness ==
    \E r \in ReqIds :
        /\ reqs[r].kind = "POST"
        /\ ~Truthy(reqs[r].userId)
        /\ Truthy(reqs[r].message)
        /\ reqs[r].status = 400
        /\ Len(store) > 0
        /\ \E c \in ConnIds : conn[c] = "open"

\* C2: every POST with a non-empty message and a non-empty userId whose
\* record the store created is answered, once its handler has finished, with
\* 201 and a data record carrying the same message and userId, a generated
\* id, read = false and timestamps.
C2_ValidPostAnswered201 ==
    \A r \in ReqIds :
        (/\ reqs[r].kind = "POST"
         /\ Truthy(reqs[r].message) /\ Truthy(reqs[r].userId)
         /\ reqs[r].doc # <<>>
         /\ reqs[r].pc \in {"done", "rejected"})
        => /\ reqs[r].status = 201
           /\ Len(reqs[r].data) = 1
           /\ reqs[r].data[1].message = reqs[r].message
           /\ reqs[r].data[1].userId = reqs[r].userId
           /\ reqs[r].data[1].id \in DOMAIN store
           /\ reqs[r].data[1].read = FALSE
           /\ reqs[r].data[1].createdAt = reqs[r].data[1].updatedAt

\* C3: a POST answered 201 has persisted, then broadcast, then responded,
\* and one record went through all three: the payload emitted for the request
\* is the stored record, unmodified, and is the data of the response.
C3_PersistBroadcastRespond ==
    \A r \in ReqIds :
        reqs[r].status = 201
        => /\ reqs[r].steps = <<"persist", "broadcast", "respond">>
           /\ Cardinality(EmittedFor(r)) = 1
           /\ \A i \in EmittedFor(r) :
                 /\ Stored(emitted[i].payload)
                 /\ emitted[i].payload = reqs[r].doc[1]
                 /\ reqs[r].data = <<emitted[i].payload>>

\* C3 witness: a 201 whose broadcast reached a connection.
C3_Witness ==
    \E r \in ReqIds, c \in ConnIds :
        /\ reqs[r].status = 201
        /\ InSeq(received[c], reqs[r].data[1])

\* ---- broadcasts: emitted[i] is the i-th io.emit, connAt the connections'
\* states at that moment.
Broadcasts == 1..MaxReqs

Emitted(i) == i \in DOMAIN emitted

OpenAt(i, c) == Emitted(i) /\ emitted[i].connAt[c] = "open"

Got(i, c) == Emitted(i) /\ InSeq(received[c], emitted[i].payload)

GotOnce(i, c) == Emitted(i) /\ Count(received[c], emitted[i].payload) = 1

InFlight(i, c) == Emitted(i) /\ InSeq(outq[c], emitted[i].payload)

\* C4 as stated, in the form a finite run refutes: once a connection that
\* was live at broadcast time has closed, nothing more can reach it, so by
\* then it must have received the payload exactly once.
C4_EveryLiveConnectionReceives ==
    \A i \in Broadcasts, c \in ConnIds :
        (OpenAt(i, c) /\ conn[c] = "closed") => GotOnce(i, c)

\* C4 amended: every connection that was live at broadcast time receives
\* the payload at most once, and exactly once unless it closes or its
\* transport fails before the packet is delivered; and once it has received
\* the payload it keeps having received it exactly once.
C4_LiveConnectionReceivesUnlessClosed ==
    \A i \in Broadcasts, c \in ConnIds :
        /\ OpenAt(i, c) ~> (GotOnce(i, c) \/ conn[c] # "open")
        /\ [](OpenAt(i, c) => Count(received[c], emitted[i].payload) <= 1)
        /\ [](GotOnce(i, c) => []GotOnce(i, c))

\* C4 witness: one broadcast found two connections live and both have
\* received its payload exactly once.
C4_Witness ==
    \E i \in Broadcasts :
        \A c \in ConnIds : OpenAt(i, c) /\ GotOnce(i, c)

\* C5: no connection receives a broadcast's payload more than once
\* (delivered or still in flight), and only a connection that was connected
\* when the broadcast read the membership ever receives it: not one that
\* had disconnected before, not one that connected afterwards.
C5_AtMostOnceNoReplay ==
    /\ \A c \in ConnIds : \A k \in DOMAIN received[c] :
          \E i \in DOMAIN emitted : emitted[i].payload = received[c][k]
    /\ \A i \in DOMAIN emitted, c \in ConnIds :
          /\ Count(received[c] \o outq[c], emitted[i].payload) <= 1
          /\ emitted[i].connAt[c] # "open"
             => ~Got(i, c) /\ ~InFlight(i, c)

\* C5 witness: broadcast i was received by c while d had not connected yet;
\* broadcast j was received by d after c had disconnected.
C5_Witness ==
    \E i, j \in Broadcasts, c, d \in ConnIds :
        /\ Emitted(i) /\ Emitted(j)
        /\ emitted[i].connAt[d] = "new" /\ Got(i, c)
        /\ emitted[j].connAt[c] = "closed" /\ Got(j, d)

\* C6: a member of the broadcast whose send fails is skipped and does not
\* stop the fan-out: every connection that was writable at that broadcast
\* has the payload delivered or in flight, unless that connection itself has
\* gone away since; and the request is still answered 201.
C6_PartialFailureIsolation ==
    \A i \in DOMAIN emitted :
        /\ reqs[emitted[i].req].status = 201
        /\ \A c \in ConnIds :
              (emitted[i].connAt[c] = "open" /\ conn[c] = "open")
              => (Got(i, c) \/ InFlight(i, c))

\* C6 witness: a broadcast met a member whose transport was broken, and a
\* member iterated after it has received the payload.
C6_Witness ==
    \E i \in Broadcasts, c, d \in ConnIds :
        /\ Emitted(i)
        /\ c < d
        /\ emitted[i].connAt[c] = "broken"
        /\ emitted[i].connAt[d] = "open"
        /\ GotOnce(i, d)

\* A POST whose create() rejected: the handler has thrown with no record.
PersistenceFailed(r) ==
    /\ reqs[r].kind = "POST"
    /\ reqs[r].pc = "rejected"
    /\ reqs[r].error = CreateError

\* C7: a valid POST whose create() rejected is answered with a 500.
C7_PersistenceFailureAnswered500 ==
    \A r \in ReqIds : PersistenceFailed(r) => reqs[r].status = 500

\* C8: a POST whose create() rejected emits nothing, and every payload
\* emitted, in flight or received is a record present in the store.
C8_NoBroadcastWithoutRecord ==
    /\ \A r \in ReqIds : PersistenceFailed(r) => EmittedFor(r) = {}
    /\ \A i \in DOMAIN emitted : Stored(emitted[i].payload)
    /\ \A c \in ConnIds :
          /\ \A k \in DOMAIN received[c] : Stored(received[c][k])
          /\ \A k \in DOMAIN outq[c] : Stored(outq[c][k])

\* C8 witness: create() rejected while the realtime server was set and a
\* connection was open to receive a broadcast; none was emitted.
C8_Witness ==
    \E r \in ReqIds, c \in ConnIds :
        /\ PersistenceFailed(r)
        /\ io = "server"
        /\ conn[c] = "open"
        /\ emitted = <<>>

\* C9: startup sets io before a request handler can need it: no POST handler
\* ever calls getIo() while io is unset, so none has thrown
\* "Socket not initialized...".
C9_NoHandlerSeesUnsetIo ==
    \A r \in ReqIds : reqs[r].error # NotInitialized

\* C10: find() resolves with all records of the store, and GET answers from
\* what it read: 404 "No Notification Found" for none, 200 with success and
\* data = the records read for one or more, 500 "Internal Server Error" when
\* the read failed.
C10_GetMapsStoreToResponse ==
    [][\A r \in ReqIds :
          /\ (reqs[r].pc = "finding" /\ reqs'[r].pc = "found")
             => reqs'[r].doc = store
          /\ (reqs[r].pc = "found" /\ reqs'[r].pc # "found")
             => /\ reqs'[r].pc = "done"
                /\ IF Len(reqs[r].doc) = 0
                   THEN /\ reqs'[r].status = 404
                        /\ reqs'[r].body = "No Notification Found"
                        /\ reqs'[r].success = FALSE
                        /\ reqs'[r].data = <<>>
                   ELSE /\ reqs'[r].status = 200
                        /\ reqs'[r].success = TRUE
                        /\ reqs'[r].data = reqs[r].doc
          /\ (reqs[r].pc = "finding" /\ reqs'[r].pc \notin {"finding", "found"})
             => /\ reqs'[r].pc = "done"
                /\ reqs'[r].status = 500
                /\ reqs'[r].body = "Internal Server Error"
                /\ reqs'[r].success = FALSE
                /\ reqs'[r].data = <<>>]_vars

\* C10 witness: a GET answered 200 with the record of an earlier POST.
C10_Witness ==
    \E r \in ReqIds :
        /\ reqs[r].kind = "GET"
        /\ reqs[r].status = 200
        /\ Len(reqs[r].data) >= 1
        /\ reqs[r].data = store

\* A POST handler that has finished: it responded, or it threw.
PostFinished(r) ==
    reqs[r].kind = "POST" /\ reqs[r].pc \in {"done", "rejected"}

\* C11: the response to a POST is decided by validation and persistence
\* alone, whatever the connections are and whichever sends fail: a finished
\* POST was refused by validation (400), or its create() rejected, or it is
\* answered 201 "Notification Sent Successfully" with the persisted record.
C11_ResponseIgnoresDelivery ==
    \A r \in ReqIds :
        PostFinished(r)
        => \/ /\ BadRequest(reqs[r].message, reqs[r].userId)
              /\ reqs[r].status = 400
           \/ reqs[r].error = CreateError
           \/ /\ reqs[r].status = 201
              /\ reqs[r].body = "Notification Sent Successfully"
              /\ reqs[r].success = TRUE
              /\ reqs[r].doc # <<>>
              /\ reqs[r].data = reqs[r].doc

\* C12 as stated: every connection in the registry, and every connection in
\* a membership a broadcast read, is live and writable.
C12_RegistryOnlyLiveWritable ==
    /\ \A c \in sockets : conn[c] = "open"
    /\ \A i \in DOMAIN emitted :
          \A c \in emitted[i].members : emitted[i].connAt[c] = "open"

\* C12 amended: the registry holds exactly the connections that were
\* accepted and whose close the transport has not reported; it never holds
\* a closed connection and no membership read contains one.  It can hold a
\* connection whose transport has failed and whose close is still to come.
C12_RegistryNeverHoldsClosed ==
    /\ \A c \in ConnIds : c \in sockets <=> conn[c] \in {"open", "broken"}
    /\ \A i \in DOMAIN emitted :
          \A c \in ConnIds :
              c \in emitted[i].members
              <=> emitted[i].connAt[c] \in {"open", "broken"}

\* C12 witness: a broadcast read its membership after one connection had
\* closed and while another, whose transport had failed, was still held.
C12_Witness ==
    \E i \in DOMAIN emitted, c, d \in ConnIds :
        /\ emitted[i].connAt[c] = "closed"
        /\ c \notin emitted[i].members
        /\ emitted[i].connAt[d] = "broken"
        /\ d \in emitted[i].members

\* C13: when the transport has closed an accepted connection, the close
\* listener registered for it at connect time has run exactly once.
C13_CloseHandlerRunsOnce ==
    \A c \in ConnIds : conn[c] = "closed" => closeRuns[c] = 1

\* The position of a payload in what a connection received and still has in
\* flight, in the order the transport hands it over.
Pos(seq, x) == CHOOSE k \in DOMAIN seq : seq[k] = x

\* C14: if broadcast i was emitted before broadcast j and a connection gets
\* both (received, or still in flight to it), it gets i's payload before j's.
C14_PerDestinationOrder ==
    \A c \in ConnIds : \A i, j \in DOMAIN emitted :
        LET seen == received[c] \o outq[c]
        IN (i < j /\ InSeq(seen, emitted[i].payload)
                  /\ InSeq(seen, emitted[j].payload))
           => Pos(seen, emitted[i].payload) < Pos(seen, emitted[j].payload)

\* C14 witness: one connection has received the payloads of two broadcasts.
C14_Witness ==
    \E c \in ConnIds :
        /\ Len(emitted) >= 2
        /\ Got(1, c) /\ Got(2, c)

\* C15: once a connection was registered and then unregistered, a membership
\* read does not contain it (now, and in every broadcast that read its
\* membership after the unregister), and such a broadcast is not sent to it.
C15_UnregisteredNotInMembership ==
    \A c \in ConnIds :
        /\ conn[c] = "closed" => c \notin Registry
        /\ \A i \in DOMAIN emitted :
              emitted[i].connAt[c] = "closed"
              => /\ c \notin emitted[i].members
                 /\ ~InSeq(received[c] \o outq[c], emitted[i].payload)

\* C15 witness: a connection was registered and unregistered without
\* anything being sent to it, a broadcast followed, and it reached the other
\* connection only.
C15_Witness ==
    \E i \in DOMAIN emitted, c, d \in ConnIds :
        /\ emitted[i].connAt[c] = "closed"
        /\ received[c] = <<>>
        /\ \A j \in DOMAIN emitted : emitted[j].connAt[c] # "open"
        /\ Got(i, d)

\* C17: a call of getIo() (the step that takes a POST handler on from its
\* resolved create()) throws "Socket not initialized..." exactly when io is
\* still unset, and returns the instance, so that the handler goes on to
\* answer 201, whenever io is set; the call leaves io as it was, and io once
\* set stays set.
C17_GetIoThrowsIffUnset ==
    [][/\ \A r \in ReqIds :
            (reqs[r].pc = "created" /\ reqs'[r].pc # "created")
            => /\ io' = io
               /\ IF io = "unset"
                  THEN /\ reqs'[r].pc = "rejected"
                       /\ reqs'[r].error = NotInitialized
                  ELSE /\ reqs'[r].pc = "done"
                       /\ reqs'[r].error = ""
                       /\ reqs'[r].status = 201
       /\ (io = "server" => io' = "server")]_vars

\* C17 witness: one handler called getIo() before io was set and threw,
\* another called it afterwards and went on to answer 201.
C17_Witness ==
    \E r, q \in ReqIds :
        /\ reqs[r].error = NotInitialized
        /\ reqs[q].status = 201
        /\ io = "server"

\* C18: once a POST handler that persisted a record has finished, with the
\* process still serving (the request was answered), the record has been
\* emitted as a "notification" broadcast exactly once; and every broadcast is
\* of a stored record, a different one each.
C18_PersistedIffBroadcast ==
    /\ \A r \in ReqIds :
          (PostFinished(r) /\ reqs[r].doc # <<>> /\ reqs[r].status # 0)
          => /\ Cardinality(EmittedFor(r)) = 1
             /\ \A i \in EmittedFor(r) : emitted[i].payload = reqs[r].doc[1]
    /\ \A i, j \in DOMAIN emitted :
          /\ Stored(emitted[i].payload)
          /\ emitted[i].payload = emitted[j].payload => i = j

\* C19 as stated: broadcasts are emitted in the order their records were
\* created in the store (ids are given in insertion order).
C19_BroadcastInCreationOrder ==
    \A i, j \in DOMAIN emitted :
        i < j => emitted[i].payload.id < emitted[j].payload.id

\* C19 amended: broadcasts are emitted in the order in which the handlers
\* resume from create(), each resuming handler appending its own record's
\* broadcast behind all earlier ones and behind what is queued for every
\* writable member; nothing else emits.  That order can differ from the order
\* of creation in the store.
C19_BroadcastInResumeOrder ==
    [][emitted' # emitted
       => \E r \in ReqIds :
            /\ reqs[r].pc = "created" /\ reqs'[r].pc = "done"
            /\ emitted' = Append(emitted,
                                 [req |-> r, payload |-> reqs[r].doc[1],
                                  members |-> sockets, connAt |-> conn])
            /\ \A c \in ConnIds :
                 outq'[c] = IF c \in sockets /\ conn[c] = "open"
                            THEN Append(outq[c], reqs[r].doc[1])
                            ELSE outq[c]]_vars

\* C19 witness: the record created second was broadcast first, and a
\* connection has received both, in the order of the broadcasts.
C19_Witness ==
    \E c \in ConnIds :
        /\ Len(emitted) = 2
        /\ emitted[1].payload.id = 2
        /\ emitted[2].payload.id = 1
        /\ received[c] = <<emitted[1].payload, emitted[2].payload>>

\* ------------------------------------------------------- admin seeding
\* seederadmin.js is a program of its own, run against the same store; each
\* run is one process going through seedAdmin.

\* seederadmin:19  await connectDB()
SeedConnect(p) ==
    /\ seedPc[p] = "idle"
    /\ seedPc' = [seedPc EXCEPT ![p] = "connected"]
    /\ UNCHANGED <<pcMain, io, conn, outq, received, store, now, reqs, emitted,
                   sockets, closeRuns, users>>

\* seederadmin:21-25  findOne({email: "admin@admin.com"}); an existing admin
\* ends the run with exit code 0, otherwise the run goes on to create.
SeedFindOne(p) ==
    /\ seedPc[p] = "connected"
    /\ seedPc' = [seedPc EXCEPT ![p] =
                     IF users > 0 THEN "skipped" ELSE "creating"]
    /\ UNCHANGED <<pcMain, io, conn, outq, received, store, now, reqs, emitted,
                   sockets, closeRuns, users>>

\* seederadmin:27-35  User.create({... email: "admin@admin.com" ...}), exit 0.
\* The schema (lines 7-12) declares no unique index on email.
SeedCreate(p) ==
    /\ seedPc[p] = "creating"
    /\ users' = users + 1
    /\ seedPc' = [seedPc EXCEPT ![p] = "seeded"]
    /\ UNCHANGED <<pcMain, io, conn, outq, received, store, now, reqs, emitted,
                   sockets, closeRuns>>

\* seederadmin:36-39  any of the awaits rejects: the catch exits with code 1.
SeedFails(p) ==
    /\ seedPc[p] \in {"idle", "connected", "creating"}
    /\ seedPc' = [seedPc EXCEPT ![p] = "failed"]
    /\ UNCHANGED <<pcMain, io, conn, outq, received, store, now, reqs, emitted,
                   sockets, closeRuns, users>>

\* process.exit(code) of a run that has ended.
ExitCode(pc) == IF pc = "failed" THEN 1 ELSE 0

SeedNext ==
    \/ \E p \in SeedRuns : SeedConnect(p)
    \/ \E p \in SeedRuns : SeedFindOne(p)
    \/ \E p \in SeedRuns : SeedCreate(p)
    \/ \E p \in SeedRuns : SeedFails(p)

SeedSpec == Init /\ [][SeedNext]_vars

\* C20: after any number of seedAdmin runs, interleaved or not, the store
\* holds at most one user with email admin@admin.com; a run that found an
\* existing admin created nothing and exited 0.
C20_AtMostOneAdmin ==
    /\ users <= 1
    /\ \A p \in SeedRuns :
          seedPc[p] = "skipped" => (users >= 1 /\ ExitCode(seedPc[p]) = 0)

=============================================================================
